---- MODULE Spec2Model ----
(***************************************************************************)
(* Model of app_new1.py, the "Ad Copy A/B Tester" Streamlit script.        *)
(*                                                                         *)
(* Streamlit re-executes the whole script on every interaction.  One       *)
(* action of this model is one such re-execution, from line 1 to the last  *)
(* line, for one kind of interaction: a click on "Save Ad Copies", an      *)
(* attempt to run the simulation on the results tab, or a change of a      *)
(* sidebar control.  What the tabs display is a function of the session    *)
(* state and the sidebar values at the end of the re-execution, and is     *)
(* modelled by the operators named after the tabs.                         *)
(*                                                                         *)
(* Units.  Probabilities are integers in units of 1/ProbScale: the slider  *)
(* value (a percentage with one decimal) is kept in tenths of a percent    *)
(* and the multiplier in hundredths, so that their product is exact.       *)
(* Values of the 'Conversion Rate' column and everything computed from     *)
(* them are exact fractions <<numerator, denominator>> in lowest terms;    *)
(* <<0, 0>> is the float nan that 0.0 / 0.0 gives for numpy floats.        *)
(***************************************************************************)
EXTENDS Integers, Sequences, FiniteSets, TLC

(***************************************************************************)
(* Bounds of the model.                                                    *)
(***************************************************************************)
\* The binomial draw is sampled at 0..MaxConversions and at sample_size.
MaxConversions == 1

(***************************************************************************)
(* Program constants.                                                      *)
(***************************************************************************)
\* st.slider(..., 0.1, 10.0, 2.0, 0.1) / 100.0, in tenths of a percent
BaseMin == 1
BaseMax == 100
BaseDefault == 20
\* st.number_input(..., 1000, 100000, 10000, 1000)
SampleMin == 1000
SampleDefault == 10000
\* np.random.uniform(0.8, 1.5), in hundredths
MultMin == 80
MultMax == 150
\* max(0.001, min(0.99, ...)), in units of 1/ProbScale
ProbScale == 100000
ClampLo == 100
ClampHi == 99000
\* np.random.uniform(0.02, 0.1), in thousandths
CtrMin == 20
\* variation[:100] + "..."
SnippetLen == 100

VARIABLES
    ad_copies,        \* st.session_state.ad_copies: the three saved texts
    ab_test_results,  \* st.session_state.ab_test_results: None or a DataFrame
    base_conversion,  \* the slider's value, in tenths of a percent
    sample_size,      \* the number input's value
    event,            \* the interaction that caused the latest re-execution
    messages,         \* status messages tab1 and tab2 showed in that re-execution
    rng_calls,        \* number of np.random calls made in that re-execution
    draw              \* the multiplier and probability of one loop iteration

vars == <<ad_copies, ab_test_results, base_conversion, sample_size,
          event, messages, rng_calls, draw>>

(***************************************************************************)
(* Text.  A str is a sequence of characters.                               *)
(***************************************************************************)
Whitespace == {" ", "\t", "\n"}

RECURSIVE lstrip(_)
lstrip(s) ==
    IF s # <<>> /\ Head(s) \in Whitespace THEN lstrip(Tail(s)) ELSE s

RECURSIVE rstrip(_)
rstrip(s) ==
    IF s # <<>> /\ s[Len(s)] \in Whitespace
    THEN rstrip(SubSeq(s, 1, Len(s) - 1))
    ELSE s

\* str.strip()
strip(s) == rstrip(lstrip(s))

\* truth value of a str
Truthy(s) == s # <<>>

\* What the user can have in a text area when saving: nothing, whitespace
\* only, a text, and a text with whitespace around it.
Texts == {<<>>, <<" ">>, <<"a">>, <<" ", "b", "\n">>}

\* variation[:100] + "..." if len(variation) > 100 else variation
Snippet(variation) ==
    IF Len(variation) > SnippetLen
    THEN SubSeq(variation, 1, SnippetLen) \o <<".", ".", ".">>
    ELSE variation

KeepValid_nostrip(copy) == Truthy(copy)

KeepValid(copy) == Truthy(copy) /\ Truthy(strip(copy))

\* valid_copies = [copy for copy in ad_copies if copy and copy.strip()]
RECURSIVE valid_copies(_)
valid_copies(copies) ==
    IF copies = <<>> THEN <<>>
    ELSE (IF KeepValid(Head(copies)) THEN <<Head(copies)>> ELSE <<>>)
         \o valid_copies(Tail(copies))

KeepVariation_nostrip(v) == Truthy(v)

KeepVariation(v) == Truthy(strip(v))

\* variations = [v for v in ad_copies if v.strip()]
RECURSIVE variations(_)
variations(copies) ==
    IF copies = <<>> THEN <<>>
    ELSE (IF KeepVariation(Head(copies)) THEN <<Head(copies)>> ELSE <<>>)
         \o variations(Tail(copies))

(***************************************************************************)
(* Exact fractions for float arithmetic.                                   *)
(***************************************************************************)
Abs(x) == IF x < 0 THEN -x ELSE x

RECURSIVE GCD(_, _)
GCD(a, b) == IF b = 0 THEN a ELSE GCD(b, a % b)

NaN == <<0, 0>>

\* n / d for floats: nan for 0 / 0
Frac(n, d) ==
    IF d = 0 THEN (IF n = 0 THEN NaN ELSE <<(IF n > 0 THEN 1 ELSE -1), 0>>)
    ELSE LET g == GCD(Abs(n), Abs(d))
             s == IF d < 0 THEN -1 ELSE 1
         IN <<s * (n \div g), s * (d \div g)>>

RatAdd(x, y) == Frac(x[1] * y[2] + y[1] * x[2], x[2] * y[2])
RatSub(x, y) == Frac(x[1] * y[2] - y[1] * x[2], x[2] * y[2])
RatMul(x, y) == Frac(x[1] * y[1], x[2] * y[2])
RatDiv(x, y) == Frac(x[1] * y[2], x[2] * y[1])
RatLess(x, y) == x[1] * y[2] < y[1] * x[2]
RatInt(n) == <<n, 1>>

(***************************************************************************)
(* The DataFrame and the values derived from it.                           *)
(***************************************************************************)
None == [is_none |-> TRUE, rows |-> <<>>]

\* pd.DataFrame(results)
DataFrame(results) == [is_none |-> FALSE, rows |-> results]

\* df['Conversion Rate']
ConversionRates(df) == [i \in 1..Len(df.rows) |-> df.rows[i].ConversionRate]

RECURSIVE Scan_last(_, _, _)
Scan_last(col, i, best) ==
    IF i > Len(col) THEN best
    ELSE Scan_last(col, i + 1, IF RatLess(col[i], col[best]) THEN best ELSE i)

\* The scan behind idxmax: a later value replaces the best only if greater.
RECURSIVE Scan(_, _, _)
Scan(col, i, best) ==
    IF i > Len(col) THEN best
    ELSE Scan(col, i + 1, IF RatLess(col[best], col[i]) THEN i ELSE best)

\* Series.idxmax(): the label of the first occurrence of the maximum
idxmax(col) == Scan(col, 2, 1)

RECURSIVE Sum(_)
Sum(col) == IF col = <<>> THEN RatInt(0) ELSE RatAdd(Head(col), Sum(Tail(col)))

\* Series.mean()
mean(col) == RatDiv(Sum(col), RatInt(Len(col)))

\* (winner_cr / avg_cr - 1) * 100
LiftOf(winner_cr, avg_cr) ==
    RatMul(RatSub(RatDiv(winner_cr, avg_cr), RatInt(1)), RatInt(100))

(***************************************************************************)
(* The simulation.                                                         *)
(***************************************************************************)
Min(a, b) == IF a < b THEN a ELSE b
Max(a, b) == IF a > b THEN a ELSE b

EffectiveRate_noclamp(base, multiplier) == base * multiplier

\* conversion_rate = max(0.001, min(0.99, base_conversion * conversion_multiplier))
EffectiveRate(base, multiplier) == Max(ClampLo, Min(ClampHi, base * multiplier))

\* Outcomes of np.random.binomial(n, p): 0..n when 0 < p < 1, sampled at the
\* low end and at n.
Binomial(n, p) ==
    IF p <= 0 THEN {0}
    ELSE IF p >= ProbScale THEN {n}
    ELSE (0..Min(MaxConversions, n)) \cup {n}

\* np.random.uniform(0.8, 1.5), sampled at both ends
Multipliers == {MultMin, MultMax}

\* np.random.uniform(0.02, 0.1), sampled at its low end
CTRs == {CtrMin}

\* The conversions one loop iteration can draw: a multiplier, the clamped
\* probability, then the binomial draw.
Conversions(n, base) ==
    UNION {Binomial(n, EffectiveRate(base, m)) : m \in Multipliers}

MakeRow_percent(i, variation, n, conversions, ctr) ==
    [Variation      |-> <<"Variation", i + 1>>,
     AdCopy         |-> Snippet(variation),
     Impressions    |-> n,
     Conversions    |-> conversions,
     ConversionRate |-> Frac(conversions * 100, n),
     CTR            |-> ctr]

\* results.append({...}) for loop index i (from 0)
MakeRow(i, variation, n, conversions, ctr) ==
    [Variation      |-> <<"Variation", i + 1>>,
     AdCopy         |-> Snippet(variation),
     Impressions    |-> n,
     Conversions    |-> conversions,
     ConversionRate |-> Frac(conversions, n),
     CTR            |-> ctr]

\* The slider, at its minimum and at its default
BaseRates == {BaseMin, BaseDefault}

\* The number input, at its minimum and at its default
SampleSizes == {SampleMin, SampleDefault}

NoDraw == [made |-> FALSE, multiplier |-> 0, rate |-> 0]

\* The info message of tab2 when there is nothing to simulate.
Tab2Notice(copies) ==
    IF Len(valid_copies(copies)) < 1 THEN {"enter_copy"} ELSE {}

(***************************************************************************)
(* The first execution of the script in a session.                         *)
(***************************************************************************)
Init ==
    /\ ad_copies = <<<<>>, <<>>, <<>>>>
    /\ ab_test_results = None
    /\ base_conversion = BaseDefault
    /\ sample_size = SampleDefault
    /\ event = "load"
    /\ messages = Tab2Notice(<<<<>>, <<>>, <<>>>>)
    /\ rng_calls = 0
    /\ draw = NoDraw

SaveCopies_keep(copy1, copy2, copy3) ==
    /\ ad_copies' = <<copy1, copy2, copy3>>
    /\ event' = "save_copies"
    /\ messages' = {"saved"} \cup Tab2Notice(<<copy1, copy2, copy3>>)
    /\ rng_calls' = 0
    /\ UNCHANGED <<ab_test_results, base_conversion, sample_size, draw>>

(***************************************************************************)
(* The re-execution after a click on "Save Ad Copies" with copy1, copy2    *)
(* and copy3 in the three text areas.                                      *)
(***************************************************************************)
SaveCopies(copy1, copy2, copy3) ==
    /\ ad_copies' = <<copy1, copy2, copy3>>
    /\ ab_test_results' = None
    /\ event' = "save_copies"
    /\ messages' = {"saved"} \cup Tab2Notice(<<copy1, copy2, copy3>>)
    /\ rng_calls' = 0
    /\ UNCHANGED <<base_conversion, sample_size, draw>>

(***************************************************************************)
(* The re-execution in which the user goes to the results tab to run the   *)
(* simulation.  The button exists only in the else branch of line 61, so   *)
(* with no valid copy the script shows the info message and nothing else.  *)
(***************************************************************************)
RunSimulation ==
    /\ event' = "run_simulation"
    /\ UNCHANGED <<ad_copies, base_conversion, sample_size, draw>>
    /\ IF Len(valid_copies(ad_copies)) < 1
       THEN /\ messages' = {"enter_copy"}
            /\ rng_calls' = 0
            /\ UNCHANGED ab_test_results
       ELSE LET vs == variations(ad_copies)
                k  == Len(vs)
            IN IF k = 0
               THEN /\ messages' = {"warning"}
                    /\ rng_calls' = 0
                    /\ UNCHANGED ab_test_results
               ELSE \E cs \in [1..k -> Conversions(sample_size, base_conversion)],
                       ctrs \in [1..k -> CTRs] :
                      /\ ab_test_results' = DataFrame(
                            [i \in 1..k |->
                                MakeRow(i - 1, vs[i], sample_size, cs[i], ctrs[i])])
                      /\ messages' = {"complete"}
                      /\ rng_calls' = 3 * k

(***************************************************************************)
(* The re-executions after a change of a sidebar control.                  *)
(***************************************************************************)
ChangeBaseConversion(b) ==
    /\ b # base_conversion
    /\ base_conversion' = b
    /\ event' = "sidebar"
    /\ messages' = Tab2Notice(ad_copies)
    /\ rng_calls' = 0
    /\ UNCHANGED <<ad_copies, ab_test_results, sample_size, draw>>

ChangeSampleSize(n) ==
    /\ n # sample_size
    /\ sample_size' = n
    /\ event' = "sidebar"
    /\ messages' = Tab2Notice(ad_copies)
    /\ rng_calls' = 0
    /\ UNCHANGED <<ad_copies, ab_test_results, base_conversion, draw>>

Next ==
    \/ \E copy1, copy2, copy3 \in Texts : SaveCopies(copy1, copy2, copy3)
    \/ RunSimulation
    \/ \E b \in BaseRates : ChangeBaseConversion(b)
    \/ \E n \in SampleSizes : ChangeSampleSize(n)

Spec == Init /\ [][Next]_vars

(***************************************************************************)
(* Lines 72-73 on their own: one loop iteration's multiplier and clamped   *)
(* probability, for every position of the slider and every multiplier in   *)
(* hundredths.                                                             *)
(***************************************************************************)
InitRate ==
    /\ ad_copies = <<<<>>, <<>>, <<>>>>
    /\ ab_test_results = None
    /\ base_conversion \in BaseMin..BaseMax
    /\ sample_size = SampleDefault
    /\ event = "load"
    /\ messages = Tab2Notice(<<<<>>, <<>>, <<>>>>)
    /\ rng_calls = 0
    /\ draw = NoDraw

DrawRate(conversion_multiplier) ==
    /\ draw' = [made       |-> TRUE,
                multiplier |-> conversion_multiplier,
                rate       |-> EffectiveRate(base_conversion, conversion_multiplier)]
    /\ UNCHANGED <<ad_copies, ab_test_results, base_conversion, sample_size,
                   event, messages, rng_calls>>

NextRate == \E conversion_multiplier \in MultMin..MultMax : DrawRate(conversion_multiplier)

RateSpec == InitRate /\ [][NextRate]_vars

(***************************************************************************)
(* What the tabs show for the stored DataFrame.                            *)
(***************************************************************************)
Zero == RatInt(0)

\* tab2: winner_idx, winner, winner_rate
tab2_winner_idx == idxmax(ConversionRates(ab_test_results))
tab2_winner == ab_test_results.rows[tab2_winner_idx].Variation
tab2_winner_rate == ab_test_results.rows[tab2_winner_idx].ConversionRate

\* tab3: best_idx, avg_cr, improvement and the variation to deploy
tab3_best_idx == idxmax(ConversionRates(ab_test_results))
tab3_avg_cr == mean(ConversionRates(ab_test_results))
tab3_improvement ==
    LiftOf(ab_test_results.rows[tab3_best_idx].ConversionRate, tab3_avg_cr)
tab3_deploy == ab_test_results.rows[tab3_best_idx].Variation

\* tab4: best_idx, winner, winner_cr, avg_cr, lift
tab4_best_idx == idxmax(ConversionRates(ab_test_results))
tab4_winner == ab_test_results.rows[tab4_best_idx].Variation
tab4_winner_cr == ab_test_results.rows[tab4_best_idx].ConversionRate
tab4_avg_cr == mean(ConversionRates(ab_test_results))
tab4_lift == LiftOf(tab4_winner_cr, tab4_avg_cr)

\* tab4: the values the insights text is formatted from
insights ==
    [BaseConversionRate     |-> base_conversion,
     SampleSizePerVariation |-> sample_size,
     TotalVariationsTested  |-> Len(ab_test_results.rows),
     WinningVariation       |-> tab4_winner,
     WinnerConversionRate   |-> tab4_winner_cr,
     AverageConversionRate  |-> tab4_avg_cr,
     RelativeLift           |-> tab4_lift]

HasResult == ~ab_test_results.is_none
Rows == ab_test_results.rows
AllBlank(copies) == \A i \in 1..Len(copies) : strip(copies[i]) = <<>>

(***************************************************************************)
(* Properties.                                                             *)
(***************************************************************************)

\* C1: a stored result has exactly one row per saved copy that is non-blank
\* after stripping, in the order of those copies (each row's 'Ad Copy' is the
\* snippet of the corresponding copy), hence between 1 and 3 rows.
ResultMatchesSavedCopies ==
    HasResult =>
        LET kept == valid_copies(ad_copies)
        IN /\ Len(Rows) = Len(kept)
           /\ Len(Rows) \in 1..3
           /\ \A i \in 1..Len(Rows) : Rows[i].AdCopy = Snippet(kept[i])

\* C1 witness: after a sidebar change a two-row result is stored whose rows
\* hold two different copies, the first input slot being blank.
ResultMatchesSavedCopiesWitness ==
    /\ HasResult
    /\ event = "sidebar"
    /\ Len(Rows) = 2
    /\ Rows[1].AdCopy # Rows[2].AdCopy
    /\ strip(ad_copies[1]) = <<>>
    /\ ad_copies[1] # <<>>

\* C2: a save_copies step leaves no result; a run_simulation step taken with
\* at least one valid saved copy leaves a result; no other step changes the
\* stored result, so a cleared result stays cleared until a run_simulation.
ResultLifecycle ==
    [][ /\ (event' = "save_copies" => ab_test_results'.is_none)
        /\ (event' = "run_simulation" /\ Len(valid_copies(ad_copies)) >= 1
               => ~ab_test_results'.is_none)
        /\ (event' \notin {"save_copies", "run_simulation"}
               => ab_test_results' = ab_test_results)
        /\ (ab_test_results.is_none /\ ~ab_test_results'.is_none
               => event' = "run_simulation") ]_vars

\* C2 witness: copies were saved, leaving no result although there is a valid
\* copy to simulate.
ResultLifecycleWitness ==
    /\ event = "save_copies"
    /\ ab_test_results.is_none
    /\ Len(valid_copies(ad_copies)) = 3

\* C3: when every saved copy is blank, the attempt to run the simulation makes
\* no random draw, leaves the copies and the (absent) result as they were, and
\* shows only the prompt to enter a copy.
BlankCopiesBlockSimulation ==
    [][ AllBlank(ad_copies) /\ event' = "run_simulation"
            => /\ rng_calls' = 0
               /\ ab_test_results.is_none
               /\ ab_test_results' = ab_test_results
               /\ ad_copies' = ad_copies
               /\ messages' = {"enter_copy"} ]_vars

\* C3 witness: the simulation was attempted with whitespace-only copies saved.
BlankCopiesBlockSimulationWitness ==
    /\ event = "run_simulation"
    /\ AllBlank(ad_copies)
    /\ \E i \in 1..3 : ad_copies[i] # <<>>
    /\ messages = {"enter_copy"}

\* C4: in every stored row 0 <= Conversions <= Impressions and Conversion Rate
\* is Conversions / Impressions; right after run_simulation Impressions is the
\* sample size of the sidebar.
RowsConsistent ==
    HasResult =>
        \A i \in 1..Len(Rows) :
            /\ Rows[i].Conversions >= 0
            /\ Rows[i].Conversions <= Rows[i].Impressions
            /\ Rows[i].ConversionRate[2] > 0
            /\ Rows[i].ConversionRate[1] * Rows[i].Impressions
                   = Rows[i].Conversions * Rows[i].ConversionRate[2]
            /\ (event = "run_simulation" => Rows[i].Impressions = sample_size)

\* C4 witness: a stored result with a row where every impression converted and
\* a row where none did.
RowsConsistentWitness ==
    /\ HasResult
    /\ \E i, j \in 1..Len(Rows) :
          /\ Rows[i].Conversions = Rows[i].Impressions
          /\ Rows[j].Conversions = 0
          /\ Rows[j].Impressions = SampleMin

\* C5: the three tabs name the same row as winner; no row has a greater
\* conversion rate, and every row before it has a smaller one.
WinnerIsFirstMaximum ==
    HasResult =>
        LET col == ConversionRates(ab_test_results)
            w   == tab2_winner_idx
        IN /\ tab3_best_idx = w
           /\ tab4_best_idx = w
           /\ tab2_winner = Rows[w].Variation
           /\ tab3_deploy = Rows[w].Variation
           /\ insights.WinningVariation = Rows[w].Variation
           /\ \A i \in 1..Len(col) : ~RatLess(col[w], col[i])
           /\ \A i \in 1..(w - 1) : RatLess(col[i], col[w])

\* C5 witness: three rows, the second and third tie for the maximum and the
\* first is below it.
WinnerIsFirstMaximumWitness ==
    /\ HasResult
    /\ Len(Rows) = 3
    /\ Rows[2].ConversionRate = Rows[3].ConversionRate
    /\ RatLess(Rows[1].ConversionRate, Rows[2].ConversionRate)
    /\ tab4_best_idx = 2

\* C6: whenever a result is stored, the average conversion rate that the
\* dashboard and the insights tab divide by is not zero.
LiftDivisorNonzero ==
    HasResult => tab3_avg_cr # Zero /\ tab4_avg_cr # Zero

\* C7: for a stored result with exactly one row, the average conversion rate
\* is the winner's and the lift is 0.
SingleRowLiftZero ==
    HasResult /\ Len(Rows) = 1 =>
        /\ insights.AverageConversionRate = insights.WinnerConversionRate
        /\ insights.RelativeLift = Zero

\* C8: the probability handed to the binomial draw is base_rate * multiplier
\* clamped into [0.001, 0.99]: within the range, and equal to the product
\* when the product is within the range.
RateIsClampedProduct ==
    draw.made =>
        LET product == base_conversion * draw.multiplier
        IN /\ draw.rate >= ClampLo
           /\ draw.rate <= ClampHi
           /\ (product >= ClampLo /\ product <= ClampHi => draw.rate = product)
           /\ (product < ClampLo => draw.rate = ClampLo)
           /\ (product > ClampHi => draw.rate = ClampHi)

\* C8 witness: a draw whose product lies below 0.001 and was raised to it.
RateIsClampedProductWitness ==
    /\ draw.made
    /\ base_conversion * draw.multiplier < ClampLo
    /\ draw.rate = ClampLo

\* C9: whenever a result is stored, the sample size echoed in the insights
\* report is the Impressions of every stored row.
ReportEchoesRunSampleSize ==
    HasResult =>
        \A i \in 1..Len(Rows) : insights.SampleSizePerVariation = Rows[i].Impressions

\* C10: the row labelled 'Variation k' holds the copy saved in input slot k.
LabelIsInputSlot ==
    HasResult =>
        \A i \in 1..Len(Rows) :
            Rows[i].AdCopy = Snippet(ad_copies[Rows[i].Variation[2]])

====
